---- MODULE Spec2Model ----
(***************************************************************************)
(* Model of src/pipeline.py: duplicate removal and entity resolution of    *)
(* (company name, IBAN) rows.                                              *)
(*                                                                         *)
(* A Python str is a sequence of one-character strings, so that lower(),   *)
(* strip(), split(), slicing and the regular expressions of the source are *)
(* computed character by character.  A pandas DataFrame is a sequence of   *)
(* rows; a row is a record with one field per column.                      *)
(***************************************************************************)
EXTENDS Integers, Sequences, FiniteSets, TLC

VARIABLES
    pc,          \* position in the program (the statement about to run)
    csv,         \* rows of the input file, as pd.read_csv delivers them
    dataframe,   \* the DataFrame handed from stage to stage
    uniques,     \* uniques_name_plus_iban of process_entity_resolution
    calls,       \* arguments of the get_company_match calls made by apply
    result,      \* result_dataframe of process_entity_resolution
    dedup_out,   \* rows written to duplicate_removal_output.csv
    arg,         \* argument(s) of a function called on its own
    ret          \* value(s) returned by a function called on its own

vars == <<pc, csv, dataframe, uniques, calls, result, dedup_out, arg, ret>>

---------------------------------------------------------------------------
(* Bounds of the model *)

MaxRows == 3        \* rows of an input file
MaxTextLen == 5     \* characters of a text given to normalize_text
MaxIbanLen == 4     \* characters of an IBAN given to remove_last_digits_iban
MaxUniverse == 3    \* members of a list given to get_company_match
MaxGroupRows == 3   \* rows of a DataFrame given to generate_group_by_company

---------------------------------------------------------------------------
(* Characters *)

UpperChars ==
    <<"A","B","C","D","E","F","G","H","I","J","K","L","M",
      "N","O","P","Q","R","S","T","U","V","W","X","Y","Z">>
LowerChars ==
    <<"a","b","c","d","e","f","g","h","i","j","k","l","m",
      "n","o","p","q","r","s","t","u","v","w","x","y","z">>
DigitChars == <<"0","1","2","3","4","5","6","7","8","9">>

\* code-point order of the characters the model uses
CharOrder ==
    <<"\t", " ", "!", ",", ".">> \o DigitChars \o UpperChars \o <<"_">> \o LowerChars

Range(f) == {f[i] : i \in DOMAIN f}

Chars == Range(CharOrder)

Ord == [c \in Chars |-> CHOOSE i \in 1..Len(CharOrder) : CharOrder[i] = c]

LowerOf ==
    [c \in Chars |->
        IF c \in Range(UpperChars)
        THEN LowerChars[CHOOSE i \in 1..26 : UpperChars[i] = c]
        ELSE c]

UpperOf ==
    [c \in Chars |->
        IF c \in Range(LowerChars)
        THEN UpperChars[CHOOSE i \in 1..26 : LowerChars[i] = c]
        ELSE c]

\* \s of re and the characters str.strip() / str.split() treat as whitespace
IsSpace(c) == c \in {" ", "\t"}

\* \w of re
IsWord(c) ==
    c \in Range(UpperChars) \cup Range(LowerChars) \cup Range(DigitChars) \cup {"_"}

---------------------------------------------------------------------------
(* Python str operations *)

\* str.lower()
Lower(s) == [i \in 1..Len(s) |-> LowerOf[s[i]]]

\* str.strip()
Strip(s) ==
    LET keep == {i \in 1..Len(s) : ~IsSpace(s[i])}
    IN  IF keep = {} THEN <<>>
        ELSE LET lo == CHOOSE i \in keep : \A j \in keep : i <= j
                 hi == CHOOSE i \in keep : \A j \in keep : j <= i
             IN  SubSeq(s, lo, hi)

\* re.sub(r'[^\w\s]', '', s)
RemovePunctuation(s) == SelectSeq(s, LAMBDA c : IsWord(c) \/ IsSpace(c))

\* re.sub(' +', ' ', s): a run of space characters becomes one space
RECURSIVE CollapseFrom(_, _)
CollapseFrom(s, i) ==
    IF i > Len(s) THEN <<>>
    ELSE (IF s[i] = " " /\ i > 1 /\ s[i-1] = " " THEN <<>> ELSE <<s[i]>>)
             \o CollapseFrom(s, i + 1)

CollapseSpaces(s) == CollapseFrom(s, 1)

\* re.sub(' +', '', s)
RemoveSpaces(s) == SelectSeq(s, LAMBDA c : c # " ")

\* s[:-2]
DropLastTwo(s) == IF Len(s) <= 2 THEN <<>> ELSE SubSeq(s, 1, Len(s) - 2)

\* str.split(): the maximal runs of non-whitespace characters
RECURSIVE SplitFrom(_, _, _, _)
SplitFrom(s, i, cur, acc) ==
    IF i > Len(s)
    THEN IF cur = <<>> THEN acc ELSE Append(acc, cur)
    ELSE IF IsSpace(s[i])
         THEN SplitFrom(s, i + 1, <<>>, IF cur = <<>> THEN acc ELSE Append(acc, cur))
         ELSE SplitFrom(s, i + 1, Append(cur, s[i]), acc)

Split(s) == SplitFrom(s, 1, <<>>, <<>>)

\* ' '.join(tokens)
RECURSIVE Join(_)
Join(tokens) ==
    IF tokens = <<>> THEN <<>>
    ELSE IF Len(tokens) = 1 THEN tokens[1]
    ELSE tokens[1] \o <<" ">> \o Join(Tail(tokens))

\* str.capitalize(): first character upper-cased, the rest lower-cased
Capitalize(s) ==
    [i \in 1..Len(s) |-> IF i = 1 THEN UpperOf[s[i]] ELSE LowerOf[s[i]]]

\* tokens[:-1]
DropLast(tokens) ==
    IF Len(tokens) <= 1 THEN <<>> ELSE SubSeq(tokens, 1, Len(tokens) - 1)

---------------------------------------------------------------------------
(* Outcome of a call: a returned value or a raised exception *)

Return(v) == [raised |-> "none", value |-> v]
Raise(e) == [raised |-> e, value |-> <<>>]

---------------------------------------------------------------------------
(* normalize_text *)

normalize_text_collapse_first(text) ==
    Strip(RemovePunctuation(CollapseSpaces(Lower(text))))

normalize_text(text) ==
    CollapseSpaces(Strip(RemovePunctuation(Lower(text))))

---------------------------------------------------------------------------
(* remove_last_digits_iban *)

remove_last_digit_iban_one(iban) ==
    LET s == RemoveSpaces(iban)
    IN  Strip(IF Len(s) <= 1 THEN <<>> ELSE SubSeq(s, 1, Len(s) - 1))

remove_last_digits_iban(iban) == Strip(DropLastTwo(RemoveSpaces(iban)))

---------------------------------------------------------------------------
(* fuzzywuzzy.fuzz.token_set_ratio, with the Levenshtein-backed matcher     *)
(* (ratio = 2 * longest common subsequence / total length)                  *)

Max(a, b) == IF a >= b THEN a ELSE b

\* one row of the longest-common-subsequence table, column by column;
\* row[j + 1] is column j, and cur holds the columns filled so far
RECURSIVE LcsRow(_, _, _, _)
LcsRow(prev, c, b, cur) ==
    IF Len(cur) > Len(b) THEN cur
    ELSE LET j == Len(cur)
         IN  LcsRow(prev, c, b,
                    Append(cur, IF c = b[j] THEN prev[j] + 1
                                ELSE Max(prev[j + 1], cur[j])))

\* the table row by row; table[i + 1] is the row of the first i characters
RECURSIVE LcsTable(_, _, _)
LcsTable(a, b, table) ==
    IF Len(table) > Len(a) THEN table[Len(table)][Len(b) + 1]
    ELSE LET i == Len(table)
         IN  LcsTable(a, b, Append(table, LcsRow(table[i], a[i], b, <<0>>)))

\* length of a longest common subsequence of a and b
Lcs(a, b) == LcsTable(a, b, <<[j \in 1..(Len(b) + 1) |-> 0]>>)

\* int(round(100 * 2.0 * m / t)): Python 3 rounds a half to the even integer
RoundedPercent(m, t) ==
    LET q == (200 * m) \div t
        r == (200 * m) % t
    IN  IF 2 * r < t THEN q
        ELSE IF 2 * r > t THEN q + 1
        ELSE IF q % 2 = 0 THEN q ELSE q + 1

\* fuzz.ratio: 100 for equal strings, 0 when one is empty
ratio(s1, s2) ==
    IF s1 = s2 THEN 100
    ELSE IF Len(s1) = 0 \/ Len(s2) = 0 THEN 0
    ELSE RoundedPercent(Lcs(s1, s2), Len(s1) + Len(s2))

\* utils.full_process: non-word characters become spaces, lower(), strip()
full_process(s) ==
    Strip(Lower([i \in 1..Len(s) |-> IF IsWord(s[i]) THEN s[i] ELSE " "]))

\* a < b in Python's string order
RECURSIVE StrLess(_, _)
StrLess(a, b) ==
    IF b = <<>> THEN FALSE
    ELSE IF a = <<>> THEN TRUE
    ELSE IF a[1] # b[1] THEN Ord[a[1]] < Ord[b[1]]
    ELSE StrLess(Tail(a), Tail(b))

\* sorted(S) for a set of strings
RECURSIVE Sorted(_)
Sorted(S) ==
    IF S = {} THEN <<>>
    ELSE LET m == CHOOSE x \in S : \A y \in S \ {x} : StrLess(x, y)
         IN  <<m>> \o Sorted(S \ {m})

token_set_ratio(s1, s2) ==
    LET p1 == full_process(s1)
        p2 == full_process(s2)
    IN  IF Len(p1) = 0 \/ Len(p2) = 0 THEN 0
        ELSE
        LET tokens1 == Range(Split(p1))
            tokens2 == Range(Split(p2))
            sorted_sect == Join(Sorted(tokens1 \cap tokens2))
            sorted_1to2 == Join(Sorted(tokens1 \ tokens2))
            sorted_2to1 == Join(Sorted(tokens2 \ tokens1))
            combined_1to2 == Strip(sorted_sect \o <<" ">> \o sorted_1to2)
            combined_2to1 == Strip(sorted_sect \o <<" ">> \o sorted_2to1)
        IN  Max(ratio(sorted_sect, combined_1to2),
                Max(ratio(sorted_sect, combined_2to1),
                    ratio(combined_1to2, combined_2to1)))

---------------------------------------------------------------------------
(* get_company_match *)

\* lines 228-231: match_values, one score appended per member
RECURSIVE match_values_from(_, _, _)
match_values_from(actual_company, unique_companies, values) ==
    IF Len(values) >= Len(unique_companies) THEN values
    ELSE match_values_from(actual_company, unique_companies,
             Append(values, token_set_ratio(unique_companies[Len(values) + 1],
                                            actual_company)))

match_values(actual_company, unique_companies) ==
    match_values_from(actual_company, unique_companies, <<>>)

\* a scan that keeps the last of several equal maxima
RECURSIVE argmax_last_from(_, _, _)
argmax_last_from(values, i, best) ==
    IF i > Len(values) THEN best
    ELSE argmax_last_from(values, i + 1,
                          IF values[i] >= values[best] THEN i ELSE best)

argmax_last(values) == argmax_last_from(values, 2, 1)

\* numpy argmax of a non-empty array: the first occurrence of the maximum
RECURSIVE argmax_from(_, _, _)
argmax_from(values, i, best) ==
    IF i > Len(values) THEN best
    ELSE argmax_from(values, i + 1,
                     IF values[i] > values[best] THEN i ELSE best)

argmax(values) == argmax_from(values, 2, 1)

\* ' '.join(key.split()[:-1]).capitalize()
display_name(key) == Capitalize(Join(DropLast(Split(key))))

\* np.array([]).argmax() raises ValueError (attempt to get an argmax of an
\* empty sequence); the function has no guard of its own
get_company_match(actual_company, unique_companies) ==
    IF Len(unique_companies) = 0
    THEN Raise("ValueError")
    ELSE Return(display_name(
            unique_companies[argmax(match_values(actual_company, unique_companies))]))

---------------------------------------------------------------------------
(* cleanco.basename and remove_business_terms *)

\* the legal-form terms of the lexicon the inputs use, each split into its
\* tokens, in the order basename tries them (longer terms first, then
\* alphabetically)
BusinessTerms ==
    << <<<<"c", "o", "r", "p">>>>,
       <<<<"g", "m", "b", "h">>>>,
       <<<<"i", "n", "c">>>>,
       <<<<"l", "t", "d">>>> >>

\* the name's tokens after one pass over the terms: a term that equals the
\* tail of what is left is deleted
RECURSIVE StripSuffixes(_, _)
StripSuffixes(parts, t) ==
    IF t > Len(BusinessTerms) THEN parts
    ELSE LET term == BusinessTerms[t]
             n == Len(parts)
             k == Len(term)
         IN  IF n >= k /\ SubSeq(parts, n - k + 1, n) = term
             THEN StripSuffixes(SubSeq(parts, 1, n - k), t + 1)
             ELSE StripSuffixes(parts, t + 1)

basename(text) == Join(StripSuffixes(Split(text), 1))

remove_business_terms_none(text) == CollapseSpaces(Strip(text))

remove_business_terms(text) == CollapseSpaces(Strip(basename(text)))

---------------------------------------------------------------------------
(* The DataFrame *)

\* a missing value, as pd.read_csv gives for an empty field
NaN == <<"<NaN>">>

\* the value of a column the DataFrame does not have yet
NoColumn == <<"<no column>">>

\* the sentinel of an invalid IBAN
INVALID == <<"X", "X">>

\* a row as pd.read_csv delivers it: the two columns of the file
CsvRow(name, iban) ==
    [name |-> name, iban |-> iban,
     norm_name |-> NoColumn,
     not_business_terms_name |-> NoColumn,
     norm_iban |-> NoColumn,
     norm_name_iban |-> NoColumn,
     not_business_terms_name_norm_iban |-> NoColumn,
     company |-> NoColumn]

\* the rows of df at the indices in keep, in their order
RECURSIVE RowsAt(_, _, _)
RowsAt(df, keep, i) ==
    IF i > Len(df) THEN <<>>
    ELSE (IF i \in keep THEN <<df[i]>> ELSE <<>>) \o RowsAt(df, keep, i + 1)

\* lines 44-45: dropna on the two columns, then drop the rows whose IBAN is
\* the sentinel
remove_anomaly_data_keep_invalid(df) ==
    RowsAt(df, {i \in 1..Len(df) : df[i].name # NaN /\ df[i].iban # NaN}, 1)

remove_anomaly_data(df) ==
    RowsAt(df, {i \in 1..Len(df) : /\ df[i].name # NaN /\ df[i].iban # NaN
                                   /\ df[i].iban # INVALID}, 1)

normalize_name_company(df) ==
    [i \in 1..Len(df) |-> [df[i] EXCEPT !.norm_name = normalize_text(df[i].name)]]

\* drop_duplicates keeping the last row of each (norm_name, iban)
remove_duplicates_keep_last(df) ==
    RowsAt(df, {i \in 1..Len(df) :
                   \A j \in (i + 1)..Len(df) :
                       ~(/\ df[j].norm_name = df[i].norm_name
                         /\ df[j].iban = df[i].iban)}, 1)

\* drop_duplicates(subset=[NORM_NAME, IBAN_COLUMN]): keep='first'
remove_duplicates(df) ==
    RowsAt(df, {i \in 1..Len(df) :
                   \A j \in 1..(i - 1) :
                       ~(/\ df[j].norm_name = df[i].norm_name
                         /\ df[j].iban = df[i].iban)}, 1)

remove_terms_name_company(df) ==
    [i \in 1..Len(df) |->
        [df[i] EXCEPT !.not_business_terms_name =
                          remove_business_terms(df[i].norm_name)]]

generate_name_iban_normalized(df) ==
    [i \in 1..Len(df) |->
        LET norm_iban == remove_last_digits_iban(df[i].iban)
        IN  [df[i] EXCEPT
                !.norm_iban = norm_iban,
                !.norm_name_iban = df[i].norm_name \o <<" ">> \o df[i].iban,
                !.not_business_terms_name_norm_iban =
                    df[i].not_business_terms_name \o <<" ">> \o norm_iban]]

\* Series.unique(): the distinct values in order of first appearance
RECURSIVE unique_from(_, _, _)
unique_from(values, i, acc) ==
    IF i > Len(values) THEN acc
    ELSE unique_from(values, i + 1,
                     IF values[i] \in Range(acc) THEN acc ELSE Append(acc, values[i]))

get_uniques_name_plus_iban_full_key(df) ==
    unique_from([i \in 1..Len(df) |-> df[i].norm_name_iban], 1, <<>>)

get_uniques_name_plus_iban(df) ==
    unique_from([i \in 1..Len(df) |-> df[i].not_business_terms_name_norm_iban],
                1, <<>>)

\* the string of row i that apply hands to get_company_match
match_argument_candidate_key(df, i) == df[i].not_business_terms_name_norm_iban

match_argument(df, i) == df[i].norm_name_iban

\* the outcomes of the get_company_match calls that apply makes, row by row
RECURSIVE company_matches_from(_, _, _)
company_matches_from(df, unique_company_name_iban, out) ==
    IF Len(out) >= Len(df) THEN out
    ELSE company_matches_from(df, unique_company_name_iban,
             Append(out, get_company_match(match_argument(df, Len(out) + 1),
                                           unique_company_name_iban)))

company_matches(df, unique_company_name_iban) ==
    company_matches_from(df, unique_company_name_iban, <<>>)

\* the DataFrame with its COMPANY column, or the exception a call raised
generate_company_match(df, unique_company_name_iban) ==
    LET out == company_matches(df, unique_company_name_iban)
        failed == {i \in 1..Len(df) : out[i].raised # "none"}
    IN  IF failed # {}
        THEN Raise(out[CHOOSE i \in failed : \A j \in failed : i <= j].raised)
        ELSE Return([i \in 1..Len(df) |-> [df[i] EXCEPT !.company = out[i].value]])

\* groupby(COMPANY).agg(list(set(...))): one row per company, in the sorted
\* order of the companies; the lists are kept as sets, their order being
\* that of Python's set iteration
generate_group_by_company_per_row(df) ==
    [i \in 1..Len(df) |->
        [company |-> df[i].company, name |-> {df[i].name}, iban |-> {df[i].iban}]]

generate_group_by_company(df) ==
    LET keys == Sorted({df[i].company : i \in 1..Len(df)})
    IN  [k \in 1..Len(keys) |->
            [company |-> keys[k],
             name |-> {df[i].name : i \in {i \in 1..Len(df) : df[i].company = keys[k]}},
             iban |-> {df[i].iban : i \in {i \in 1..Len(df) : df[i].company = keys[k]}}]]

---------------------------------------------------------------------------
(* Inputs of the functions called on their own *)

\* all sequences over S of length at most n
SeqsUpTo(S, n) == UNION {[1..k -> S] : k \in 0..n}

\* the variables of the pipeline, when a function is called on its own
PipelineIdle ==
    /\ csv = <<>>
    /\ dataframe = <<>>
    /\ uniques = <<>>
    /\ calls = <<>>
    /\ result = <<>>
    /\ dedup_out = <<>>

PipelineUnchanged == UNCHANGED <<csv, dataframe, uniques, calls, result, dedup_out>>

---------------------------------------------------------------------------
(* normalize_text called on a text, and again on its own result *)

TextAlphabet == {"A", "b", "!", " ", "\t"}

InitNormalize ==
    /\ pc = "normalize_text"
    /\ arg \in SeqsUpTo(TextAlphabet, MaxTextLen)
    /\ ret = <<>>
    /\ PipelineIdle

CallNormalize ==
    /\ pc = "normalize_text"
    /\ ret' = Append(ret, normalize_text(IF ret = <<>> THEN arg ELSE ret[Len(ret)]))
    /\ pc' = IF Len(ret) = 0 THEN "normalize_text" ELSE "returned"
    /\ UNCHANGED arg
    /\ PipelineUnchanged

NextNormalize == CallNormalize

SpecNormalize == InitNormalize /\ [][NextNormalize]_vars

---------------------------------------------------------------------------
(* remove_last_digits_iban called on an identifier *)

IbanAlphabet == {"D", "0", " ", "\t"}

InitTruncate ==
    /\ pc = "remove_last_digits_iban"
    /\ arg \in SeqsUpTo(IbanAlphabet, MaxIbanLen)
    /\ ret = <<>>
    /\ PipelineIdle

CallTruncate ==
    /\ pc = "remove_last_digits_iban"
    /\ ret' = Return(remove_last_digits_iban(arg))
    /\ pc' = "returned"
    /\ UNCHANGED arg
    /\ PipelineUnchanged

NextTruncate == CallTruncate

SpecTruncate == InitTruncate /\ [][NextTruncate]_vars

---------------------------------------------------------------------------
(* Texts the inputs are built from *)

sp == <<" ">>
acme == <<"a", "c", "m", "e">>
Acme == <<"A", "c", "m", "e">>
ACME == <<"A", "C", "M", "E">>
corp == <<"c", "o", "r", "p">>
Corp == <<"C", "o", "r", "p">>
gmbh == <<"g", "m", "b", "h">>
GMBH == <<"G", "M", "B", "H">>
foods == <<"f", "o", "o", "d", "s">>
Foods == <<"F", "o", "o", "d", "s">>
bolt == <<"b", "o", "l", "t">>
Bolt == <<"B", "o", "l", "t">>
DE0 == <<"D", "E", "0">>
DE001 == <<"D", "E", "0", "0", "1">>
DE002 == <<"D", "E", "0", "0", "2">>
DE003 == <<"D", "E", "0", "0", "3">>
DE == <<"D", "E">>
XX == <<"X", "X">>

---------------------------------------------------------------------------
(* get_company_match called on a key and a list of candidate keys *)

\* keys of the shape normalized name + ' ' + IBAN
ActualPool ==
    { acme \o sp \o corp \o sp \o DE001,
      acme \o sp \o DE003,
      acme \o sp \o foods \o sp \o DE,
      bolt \o sp \o DE002 }

\* keys of the shape name without business terms + ' ' + IBAN without its
\* last two characters
CandidatePool ==
    { acme \o sp \o DE0,
      acme \o sp \o foods \o sp \o DE0,
      acme \o sp \o foods \o sp,
      acme \o sp,
      bolt \o sp \o DE0 }

InitMatch ==
    /\ pc = "get_company_match"
    /\ arg \in [actual_company : ActualPool,
                 unique_companies : SeqsUpTo(CandidatePool, MaxUniverse)]
    /\ ret = <<>>
    /\ PipelineIdle

CallMatch ==
    /\ pc = "get_company_match"
    /\ ret' = get_company_match(arg.actual_company, arg.unique_companies)
    /\ pc' = "returned"
    /\ UNCHANGED arg
    /\ PipelineUnchanged

NextMatch == CallMatch

SpecMatch == InitMatch /\ [][NextMatch]_vars

---------------------------------------------------------------------------
(* Claims on get_company_match *)

\* C1: for a non-empty universe the returned display name is derived from a
\* member of the universe whose score against the record key is the maximum
\* over all members and that comes first among the members of that score.
C1_FirstBestMember ==
    (pc = "returned" /\ Len(arg.unique_companies) > 0) =>
        LET u == arg.unique_companies
            score(k) == token_set_ratio(k, arg.actual_company)
        IN  \E i \in 1..Len(u) :
                /\ \A j \in 1..Len(u) : score(u[j]) <= score(u[i])
                /\ \A j \in 1..(i - 1) : score(u[j]) < score(u[i])
                /\ ret = Return(Capitalize(Join(DropLast(Split(u[i])))))

\* two members of different display names share the maximum score, the first
\* of them is not the first member, and its display name is returned
C1_Witness ==
    /\ pc = "returned"
    /\ LET u == arg.unique_companies
           score(k) == token_set_ratio(k, arg.actual_company)
       IN  \E i, j \in 1..Len(u) :
               /\ 1 < i /\ i < j
               /\ score(u[i]) = score(u[j])
               /\ \A k \in 1..Len(u) : score(u[k]) <= score(u[i])
               /\ \A k \in 1..(i - 1) : score(u[k]) < score(u[i])
               /\ display_name(u[i]) # display_name(u[j])
               /\ ret = Return(display_name(u[i]))

\* exceptions raised by the libraries a function calls, not by its own checks
LibraryExceptions == {"ValueError", "IndexError", "TypeError", "AttributeError"}

\* C2: given an empty universe, get_company_match signals a failure of its
\* own that is neither a normal return nor a generic library error.
C2_ExplicitFailureOnEmptyUniverse ==
    (pc = "returned" /\ Len(arg.unique_companies) = 0) =>
        /\ ret.raised # "none"
        /\ ret.raised \notin LibraryExceptions

---------------------------------------------------------------------------
(* The program: process_duplicate_removal, then process_entity_resolution *)

\* the rows an input file is made of
CsvRows ==
    { CsvRow(Acme \o sp \o Corp, DE001),
      CsvRow(ACME \o sp \o GMBH, DE002),
      CsvRow(acme, DE003),
      CsvRow(ACME \o sp \o sp \o Corp \o <<".">>, DE001),
      CsvRow(Bolt, INVALID),
      CsvRow(NaN, DE002),
      CsvRow(Acme, NaN),
      CsvRow(<<" ", " ">>, DE003),
      CsvRow(Acme \o sp \o Foods, DE) }

Init ==
    /\ pc = "read_data"
    /\ csv \in SeqsUpTo(CsvRows, MaxRows)
    /\ dataframe = <<>>
    /\ uniques = <<>>
    /\ calls = <<>>
    /\ result = <<>>
    /\ dedup_out = <<>>
    /\ arg = <<>>
    /\ ret = <<>>

read_data ==
    /\ pc = "read_data"
    /\ dataframe' = csv
    /\ pc' = "remove_anomaly_data"
    /\ UNCHANGED <<csv, uniques, calls, result, dedup_out, arg, ret>>

RemoveAnomalyData ==
    /\ pc = "remove_anomaly_data"
    /\ dataframe' = remove_anomaly_data(dataframe)
    /\ pc' = "normalize_name_company"
    /\ UNCHANGED <<csv, uniques, calls, result, dedup_out, arg, ret>>

NormalizeNameCompany ==
    /\ pc = "normalize_name_company"
    /\ dataframe' = normalize_name_company(dataframe)
    /\ pc' = "remove_duplicates"
    /\ UNCHANGED <<csv, uniques, calls, result, dedup_out, arg, ret>>

RemoveDuplicates ==
    /\ pc = "remove_duplicates"
    /\ dataframe' = remove_duplicates(dataframe)
    /\ pc' = "to_csv_duplicate_removal"
    /\ UNCHANGED <<csv, uniques, calls, result, dedup_out, arg, ret>>

\* lines 305-308: the deduplicated table is written out
WriteDuplicateRemoval ==
    /\ pc = "to_csv_duplicate_removal"
    /\ dedup_out' = dataframe
    /\ pc' = "remove_terms_name_company"
    /\ UNCHANGED <<csv, dataframe, uniques, calls, result, arg, ret>>

RemoveTermsNameCompany ==
    /\ pc = "remove_terms_name_company"
    /\ dataframe' = remove_terms_name_company(dataframe)
    /\ pc' = "generate_name_iban_normalized"
    /\ UNCHANGED <<csv, uniques, calls, result, dedup_out, arg, ret>>

GenerateNameIbanNormalized ==
    /\ pc = "generate_name_iban_normalized"
    /\ dataframe' = generate_name_iban_normalized(dataframe)
    /\ pc' = "get_uniques_name_plus_iban"
    /\ UNCHANGED <<csv, uniques, calls, result, dedup_out, arg, ret>>

GetUniquesNamePlusIban ==
    /\ pc = "get_uniques_name_plus_iban"
    /\ uniques' = get_uniques_name_plus_iban(dataframe)
    /\ pc' = "generate_company_match"
    /\ UNCHANGED <<csv, dataframe, calls, result, dedup_out, arg, ret>>

\* apply calls get_company_match once per row, in row order; an exception
\* raised by a call ends the program
GenerateCompanyMatch ==
    /\ pc = "generate_company_match"
    /\ calls' = [i \in 1..Len(dataframe) |->
                    [actual_company |-> match_argument(dataframe, i),
                     unique_companies |-> uniques]]
    /\ LET matched == generate_company_match(dataframe, uniques)
       IN  IF matched.raised # "none"
           THEN pc' = "raised" /\ UNCHANGED dataframe
           ELSE pc' = "generate_group_by_company" /\ dataframe' = matched.value
    /\ UNCHANGED <<csv, uniques, result, dedup_out, arg, ret>>

GenerateGroupByCompany ==
    /\ pc = "generate_group_by_company"
    /\ result' = generate_group_by_company(dataframe)
    /\ pc' = "done"
    /\ UNCHANGED <<csv, dataframe, uniques, calls, dedup_out, arg, ret>>

Next ==
    \/ read_data
    \/ RemoveAnomalyData
    \/ NormalizeNameCompany
    \/ RemoveDuplicates
    \/ WriteDuplicateRemoval
    \/ RemoveTermsNameCompany
    \/ GenerateNameIbanNormalized
    \/ GetUniquesNamePlusIban
    \/ GenerateCompanyMatch
    \/ GenerateGroupByCompany

Spec == Init /\ [][Next]_vars

---------------------------------------------------------------------------
(* generate_group_by_company called on a DataFrame of matched rows *)

GroupNames == {Acme \o sp \o Corp, ACME \o sp \o GMBH, Bolt}
GroupIbans == {DE001, DE002}
GroupCompanies == {Acme, Bolt, <<>>}

\* a row that carries a company; the intermediate columns play no part
MatchedRow(name, iban, company) ==
    [CsvRow(name, iban) EXCEPT !.company = company]

MatchedRows ==
    {MatchedRow(n, i, c) : n \in GroupNames, i \in GroupIbans, c \in GroupCompanies}

InitGroup ==
    /\ pc = "generate_group_by_company"
    /\ dataframe \in SeqsUpTo(MatchedRows, MaxGroupRows)
    /\ csv = <<>>
    /\ uniques = <<>>
    /\ calls = <<>>
    /\ result = <<>>
    /\ dedup_out = <<>>
    /\ arg = <<>>
    /\ ret = <<>>

NextGroup == GenerateGroupByCompany

SpecGroup == InitGroup /\ [][NextGroup]_vars

---------------------------------------------------------------------------
(* Claims on the program *)

\* C3: the output entities partition the rows given to the Aggregator: the
\* union of the observed names is the set of the rows' names, there is
\* exactly one output row per distinct company, and every input row is
\* counted in exactly one output entity, the one of its company.
C3_GroupsPartitionRows ==
    pc = "done" =>
        LET rows == 1..Len(dataframe)
            out == 1..Len(result)
        IN  /\ UNION {result[k].name : k \in out} = {dataframe[i].name : i \in rows}
            /\ {result[k].company : k \in out} = {dataframe[i].company : i \in rows}
            /\ \A k, l \in out : result[k].company = result[l].company => k = l
            /\ \A i \in rows :
                   \E k \in out :
                       /\ result[k].company = dataframe[i].company
                       /\ dataframe[i].name \in result[k].name
                       /\ dataframe[i].iban \in result[k].iban
                       /\ \A l \in out \ {k} :
                              result[l].company # dataframe[i].company
            /\ \A k \in out :
                   /\ result[k].name =
                          {dataframe[i].name :
                              i \in {i \in rows : dataframe[i].company = result[k].company}}
                   /\ result[k].iban =
                          {dataframe[i].iban :
                              i \in {i \in rows : dataframe[i].company = result[k].company}}

\* three rows fall into two entities, one of them holding two rows
C3_Witness ==
    /\ pc = "done"
    /\ Len(dataframe) = 3
    /\ Len(result) = 2
    /\ \E k \in 1..Len(result) : Cardinality(result[k].name) = 2

AcmeRows ==
    << CsvRow(Acme \o sp \o Corp, DE001),
       CsvRow(ACME \o sp \o GMBH, DE002),
       CsvRow(acme, DE003) >>

\* C4: on the rows ("Acme Corp","DE001"), ("ACME GMBH","DE002"),
\* ("acme","DE003") with sentinel "XX", all three rows get the company
\* "Acme" and the result is one entity whose IBANs are DE001, DE002, DE003.
C4_AcmeScenario ==
    (pc = "done" /\ csv = AcmeRows /\ INVALID = XX) =>
        /\ Len(dataframe) = 3
        /\ \A i \in 1..3 : dataframe[i].company = Acme
        /\ Len(result) = 1
        /\ result[1].company = Acme
        /\ result[1].iban = {DE001, DE002, DE003}

C4_Witness ==
    /\ pc = "done"
    /\ csv = AcmeRows
    /\ INVALID = XX
    /\ Len(result) = 1

\* the program is past get_uniques_name_plus_iban / past the apply
AfterUniques == pc \in {"generate_company_match", "generate_group_by_company", "done"}
AfterMatch == pc \in {"generate_group_by_company", "done"}

\* C5 as stated: the universe is the set of the distinct full keys
\* (normalized name + " " + raw IBAN) and the string scored for a row is its
\* candidate key (name without terms + " " + truncated IBAN).
C5_Original ==
    /\ AfterUniques =>
           Range(uniques) = {dataframe[i].norm_name_iban : i \in 1..Len(dataframe)}
    /\ AfterMatch =>
           \A i \in 1..Len(dataframe) :
               calls[i].actual_company = dataframe[i].not_business_terms_name_norm_iban

\* C5 amended: the universe holds exactly the distinct candidate keys (name
\* without terms + " " + truncated IBAN) of the deduplicated rows, each
\* once, and the string scored against it for a row is the row's full key
\* (normalized name + " " + raw IBAN).
C5_UniverseOfCandidateKeys ==
    /\ AfterUniques =>
           /\ Range(uniques) =
                  { remove_business_terms(dedup_out[i].norm_name) \o sp
                        \o remove_last_digits_iban(dedup_out[i].iban) :
                    i \in 1..Len(dedup_out) }
           /\ \A k, l \in 1..Len(uniques) : uniques[k] = uniques[l] => k = l
    /\ AfterMatch =>
           /\ Len(calls) = Len(dedup_out)
           /\ \A i \in 1..Len(calls) :
                  /\ calls[i].actual_company =
                         dedup_out[i].norm_name \o sp \o dedup_out[i].iban
                  /\ calls[i].unique_companies = uniques

\* two rows whose full keys differ share one candidate key, and both were
\* scored
C5_Witness ==
    /\ pc = "done"
    /\ Len(dedup_out) >= 2
    /\ Len(uniques) < Len(dedup_out)
    /\ Len(calls) = Len(dedup_out)
    /\ \E i \in 1..Len(dataframe) :
           dataframe[i].norm_name_iban # dataframe[i].not_business_terms_name_norm_iban

\* indices of the input rows that are valid: both fields present and the
\* IBAN not the sentinel
ValidInput == {i \in 1..Len(csv) : /\ csv[i].name # NaN /\ csv[i].iban # NaN
                                   /\ csv[i].iban # INVALID}

SamePair(i, j) ==
    /\ csv[i].iban = csv[j].iban
    /\ normalize_text(csv[i].name) = normalize_text(csv[j].name)

\* the valid input rows that are the first of their (normalized name, IBAN)
FirstOccurrences ==
    {i \in ValidInput : \A j \in ValidInput : j < i => ~SamePair(i, j)}

DedupWritten ==
    pc \notin {"read_data", "remove_anomaly_data", "normalize_name_company",
               "remove_duplicates", "to_csv_duplicate_removal"}

\* C6: the deduplicated table is the input restricted, in input order, to
\* the first occurrence of every (normalized name, IBAN) pair of the valid
\* rows; the pairs of the surviving rows are pairwise distinct.
C6_FirstOccurrencesInOrder ==
    DedupWritten =>
        LET first == FirstOccurrences
        IN  /\ Len(dedup_out) = Cardinality(first)
            /\ \A k \in 1..Len(dedup_out) :
                   LET i == CHOOSE i \in first : Cardinality({j \in first : j <= i}) = k
                   IN  /\ dedup_out[k].name = csv[i].name
                       /\ dedup_out[k].iban = csv[i].iban
                       /\ dedup_out[k].norm_name = normalize_text(csv[i].name)
            /\ \A k, l \in 1..Len(dedup_out) :
                   (/\ dedup_out[k].norm_name = dedup_out[l].norm_name
                    /\ dedup_out[k].iban = dedup_out[l].iban) => k = l

\* a valid row is dropped as the duplicate of an earlier row of another raw
\* name, and a different row after it survives
C6_Witness ==
    /\ DedupWritten
    /\ Len(dedup_out) = 2
    /\ \E i, j \in ValidInput :
           i < j /\ SamePair(i, j) /\ csv[i].name # csv[j].name
    /\ \E i \in ValidInput \ FirstOccurrences : \E j \in FirstOccurrences : i < j

\* C7 as stated: every surviving row has a name that is non-empty after
\* trimming and an IBAN that is not the sentinel.
C7_Original ==
    DedupWritten =>
        \A k \in 1..Len(dedup_out) :
            /\ dedup_out[k].name # NaN
            /\ Strip(dedup_out[k].name) # <<>>
            /\ dedup_out[k].iban # INVALID

\* C7 amended: every surviving row has a name and an IBAN that are present
\* (not missing) and an IBAN that is not the sentinel; a row whose IBAN is
\* the sentinel or whose name or IBAN is missing is in no downstream output
\* (deduplicated table, universe, resolved entities).  A name of blanks only
\* is present and survives.
C7_NoAnomalyDownstream ==
    LET valid == {csv[i] : i \in ValidInput}
        valid_names == {v.name : v \in valid}
        valid_ibans == {v.iban : v \in valid}
        valid_keys ==
            { remove_business_terms(normalize_text(v.name)) \o sp
                  \o remove_last_digits_iban(v.iban) : v \in valid }
        present(rows) ==
            \A k \in 1..Len(rows) :
                /\ rows[k].name # NaN
                /\ rows[k].iban # NaN
                /\ rows[k].iban # INVALID
                /\ \E v \in valid : v.name = rows[k].name /\ v.iban = rows[k].iban
    IN  /\ pc \notin {"read_data", "remove_anomaly_data"} => present(dataframe)
        /\ present(dedup_out)
        /\ Range(uniques) \subseteq valid_keys
        /\ \A k \in 1..Len(result) :
               /\ NaN \notin result[k].name
               /\ NaN \notin result[k].iban
               /\ INVALID \notin result[k].iban
               /\ result[k].name \subseteq valid_names
               /\ result[k].iban \subseteq valid_ibans

\* the input holds a sentinel row, a row without name and a row of a blank
\* name; the run is over and only the blank-named row is in the result
C7_Witness ==
    /\ pc = "done"
    /\ \E i \in 1..Len(csv) : csv[i].iban = INVALID
    /\ \E i \in 1..Len(csv) : csv[i].name = NaN
    /\ \E k \in 1..Len(dedup_out) : Strip(dedup_out[k].name) = <<>>
    /\ Len(result) = 1

\* C10: the company of every row is the capitalized name without business
\* terms of a row that produced the matched universe key: the token dropped
\* from the key is its IBAN part, never a token of the name.
C10_DisplayNameIsStrippedName ==
    pc = "done" =>
        \A i \in 1..Len(dataframe) :
            LET scores == [k \in 1..Len(uniques) |->
                              token_set_ratio(uniques[k], dataframe[i].norm_name_iban)]
                best == CHOOSE k \in 1..Len(uniques) :
                            /\ \A l \in 1..Len(uniques) : scores[l] <= scores[k]
                            /\ \A l \in 1..(k - 1) : scores[l] < scores[k]
            IN  \E j \in 1..Len(dataframe) :
                    /\ dataframe[j].not_business_terms_name_norm_iban = uniques[best]
                    /\ dataframe[i].company =
                           Capitalize(dataframe[j].not_business_terms_name)

---------------------------------------------------------------------------
(* Claims on normalize_text and remove_last_digits_iban *)

\* C8: normalization is idempotent: normalizing the result of normalize_text
\* again returns that same result.
C8_NormalizeIdempotent ==
    (pc = "returned" /\ Len(ret) = 2) => ret[2] = ret[1]

\* a text with punctuation between spaces and a tab, normalized twice
C8_Witness ==
    /\ pc = "returned"
    /\ Len(ret) = 2
    /\ ret[1] # arg
    /\ ret[1] # <<>>
    /\ \E i \in 2..(Len(arg) - 1) : arg[i-1] = " " /\ arg[i] = "!" /\ arg[i+1] = " "
    /\ \E i \in 1..Len(arg) : arg[i] = "\t"

NonSpaceCount(s) == Cardinality({i \in 1..Len(s) : s[i] # " "})
NonWhitespaceCount(s) == Cardinality({i \in 1..Len(s) : ~IsSpace(s[i])})

====
